---- MODULE Spec2Model ----
(***************************************************************************)
(* Command-safety classification, command execution and the agent loop of  *)
(* the agent_host crate (crates/agent_host/src/executor.rs and lib.rs),    *)
(* the provider router (crates/providers/src/router.rs) and the chat loop  *)
(* of the application (crates/app/src/main.rs).                            *)
(*                                                                         *)
(* Rust strings are TLA+ strings; the str methods the code uses            *)
(* (to_lowercase, trim, contains, starts_with, strip_prefix) are operators *)
(* over them.  One behaviour of the model is one call of one function:     *)
(* classify_command, execute_command, execute_with_sudo,                   *)
(* AgentHost::extract_commands, AgentHost::agent_chat, run_ai_generation   *)
(* or ProviderRouter::generate; or one session of the application, in      *)
(* which the UI thread sends messages and polls for the results of the     *)
(* background generation threads.                                          *)
(***************************************************************************)
EXTENDS Integers, Sequences, FiniteSets, TLC

VARIABLES
    entry,              \* the public function this behaviour calls
    pc,                 \* position inside the called function
    cmd,                \* the cmd argument of classify/execute/execute_with_sudo
    password,           \* the password argument of execute_with_sudo
    level,              \* value returned by classify_command ("none" before)
    ret,                \* value returned by the called function
    auto_execute_safe,  \* agent_chat argument
    all_messages,       \* agent_chat local: the message sequence
    tool_results,       \* agent_chat local: accumulated ToolResults
    iter,               \* agent_chat: iterations of the for loop started
    response,           \* agent_chat local: the provider's current response
    commands,           \* agent_chat local: commands of this iteration not yet processed
    executed_any,       \* agent_chat local
    \* what the environment saw and did (history, not program state)
    spawn_log,          \* every spawn reached so far: <<program, command>>
    exec_calls,         \* every command handed to execute_command by agent_chat
    last_os,            \* how the operating system answered the last spawn
    sent,               \* the message sequence last handed to router.generate
    provider_calls,     \* calls of router.generate
    provider_failed,    \* whether a call of router.generate returned Err
    switches,           \* times the provider answered something else than before
    faults,             \* commands of the agent loop that did not run nominally
    orphans,            \* subprocesses spawned and neither waited on nor killed
    file_to_preview,    \* run_ai_generation local
    \* the application (crates/app/src/main.rs): fields of AppState
    chat_history,
    is_thinking,
    thinking_status,
    pending_preview,
    ai_result_rx,       \* Option<Receiver<AiResult>>: <<>> or <<generation>>
    generations,        \* the background threads started, with their channels
    \* ProviderRouter (crates/providers/src/router.rs)
    provider_preference, \* config.provider_preference
    provider_health,     \* what each provider does when it is asked
    providers_called     \* the providers whose generate was called

vars == <<entry, pc, cmd, password, level, ret, auto_execute_safe,
          all_messages, tool_results, iter, response, commands, executed_any,
          spawn_log, exec_calls, last_os, sent, provider_calls, provider_failed,
          switches, faults, orphans, file_to_preview,
          chat_history, is_thinking, thinking_status, pending_preview,
          ai_result_rx, generations,
          provider_preference, provider_health, providers_called>>

\* the configuration, the environment and the log of ProviderRouter::generate
router_vars == <<provider_preference, provider_health, providers_called>>

\* the state of the application
app_vars == <<chat_history, is_thinking, thinking_status, pending_preview,
              ai_result_rx, generations>>

\* the state of one call of a function of agent_host or of run_ai_generation
call_vars == <<entry, pc, cmd, password, level, ret, auto_execute_safe,
               all_messages, tool_results, iter, response, commands,
               executed_any, spawn_log, exec_calls, last_os, sent,
               provider_calls, provider_failed, switches, faults, orphans,
               file_to_preview>>

-----------------------------------------------------------------------------
(* str helpers *)

UpperChars == "ABCDEFGHIJKLMNOPQRSTUVWXYZ"

LowerChars == "abcdefghijklmnopqrstuvwxyz"

CharAt(s, i) == SubSeq(s, i, i)

\* char::to_lowercase on the ASCII letters; every other character of the
\* model's alphabet is its own lower case
LowerOf ==
    [c \in {CharAt(UpperChars, i) : i \in 1..Len(UpperChars)} |->
        CharAt(LowerChars, CHOOSE i \in 1..Len(UpperChars) : CharAt(UpperChars, i) = c)]

to_lowercase_char(c) == IF c \in DOMAIN LowerOf THEN LowerOf[c] ELSE c

RECURSIVE to_lowercase(_)
to_lowercase(s) ==
    IF s = "" THEN ""
    ELSE to_lowercase_char(CharAt(s, 1)) \o to_lowercase(SubSeq(s, 2, Len(s)))

is_whitespace(c) == c \in {" ", "\t", "\n", "\r"}

RECURSIVE trim_start(_)
trim_start(s) ==
    IF s # "" /\ is_whitespace(CharAt(s, 1))
    THEN trim_start(SubSeq(s, 2, Len(s)))
    ELSE s

RECURSIVE trim_end(_)
trim_end(s) ==
    IF s # "" /\ is_whitespace(CharAt(s, Len(s)))
    THEN trim_end(SubSeq(s, 1, Len(s) - 1))
    ELSE s

trim(s) == trim_end(trim_start(s))

\* whether p occurs in s at position i
has_at(s, i, p) ==
    i >= 1 /\ i + Len(p) - 1 <= Len(s) /\ SubSeq(s, i, i + Len(p) - 1) = p

starts_with(s, p) == Len(p) <= Len(s) /\ SubSeq(s, 1, Len(p)) = p

contains(s, p) ==
    \E i \in 1..(Len(s) - Len(p) + 1) : SubSeq(s, i, i + Len(p) - 1) = p

strip_prefix_or(s, p) ==
    IF starts_with(s, p) THEN SubSeq(s, Len(p) + 1, Len(s)) ELSE s

-----------------------------------------------------------------------------
(* DangerLevel and the four pattern tables *)

DangerLevel == {"Safe", "NeedsConfirmation", "Dangerous", "NeedsSudo", "Blocked"}

SAFE_COMMANDS == <<
    "ls", "find", "cat", "head", "tail", "wc", "du", "df", "pwd",
    "file", "stat", "tree", "which", "whereis", "type",
    "grep", "rg", "ag", "awk", "sed", "sort", "uniq", "cut", "tr",
    "diff", "comm", "join", "paste", "column",
    "uname", "hostname", "uptime", "free", "ps", "top", "htop",
    "lscpu", "lsblk", "lsusb", "lspci", "lsof", "id", "whoami",
    "date", "cal", "env", "printenv",
    "ip", "ifconfig", "netstat", "ss", "ping", "nslookup", "dig",
    "host", "traceroute", "curl", "wget",
    "git status", "git log", "git diff", "git show", "git branch",
    "git remote", "git fetch", "git ls-files", "git blame",
    "cargo check", "cargo test", "cargo build", "cargo clippy",
    "cargo fmt --check", "rustc --version", "cargo --version",
    "node --version", "npm --version", "python --version", "pip --version",
    "python -c", "node -e",
    "tar -tf", "unzip -l", "zipinfo" >>

NEEDS_CONFIRMATION == <<
    "cp", "mv", "mkdir", "touch", "ln",
    "git add", "git commit", "git push", "git pull", "git merge",
    "git checkout", "git reset", "git stash",
    "pip install", "npm install", "cargo install",
    "nano", "vim", "nvim", "code" >>

DANGEROUS_COMMANDS == <<
    "rm", "rmdir", "shred",
    "chmod", "chown", "chgrp",
    "kill", "killall", "pkill",
    "git reset --hard", "git clean", "git push --force",
    "drop", "delete", "truncate" >>

BLOCKED_COMMANDS == <<
    "rm -rf /", "rm -rf /*", ":(){ :|:& };:",
    "mkfs", "dd if=/dev/zero", "dd if=/dev/random",
    "> /dev/sda", ">/dev/sda",
    "nc -l", "nmap" >>

SUDO_PREFIX == "sudo "

\* the `for blocked in BLOCKED_COMMANDS` loop
matches_blocked(t) ==
    \E i \in 1..Len(BLOCKED_COMMANDS) : contains(t, BLOCKED_COMMANDS[i])

\* the `for dangerous in DANGEROUS_COMMANDS` loop
matches_dangerous(t) ==
    \E i \in 1..Len(DANGEROUS_COMMANDS) :
        \/ starts_with(t, DANGEROUS_COMMANDS[i])
        \/ contains(t, " " \o DANGEROUS_COMMANDS[i])

\* the `for confirm in NEEDS_CONFIRMATION` loop
matches_confirm(t) ==
    \E i \in 1..Len(NEEDS_CONFIRMATION) : starts_with(t, NEEDS_CONFIRMATION[i])

\* the `for safe in SAFE_COMMANDS` loop
matches_safe(t) ==
    \E i \in 1..Len(SAFE_COMMANDS) : starts_with(t, SAFE_COMMANDS[i])

\* faulty variant of classify_trimmed: an unknown command falls through to Safe
classify_trimmed_default_safe(t) ==
    IF matches_blocked(t) THEN "Blocked"
    ELSE IF starts_with(t, SUDO_PREFIX) THEN "NeedsSudo"
    ELSE IF matches_dangerous(t) THEN "Dangerous"
    ELSE IF matches_confirm(t) THEN "NeedsConfirmation"
    ELSE "Safe"

\* faulty variant of classify_trimmed: the needs-confirmation and safe tables
\* are consulted before the dangerous one
classify_trimmed_dangerous_last(t) ==
    IF matches_blocked(t) THEN "Blocked"
    ELSE IF starts_with(t, SUDO_PREFIX) THEN "NeedsSudo"
    ELSE IF matches_confirm(t) THEN "NeedsConfirmation"
    ELSE IF matches_safe(t) THEN "Safe"
    ELSE IF matches_dangerous(t) THEN "Dangerous"
    ELSE "NeedsConfirmation"

\* the tier checks of classify_command on the normalised command, in the
\* order the code makes them
classify_trimmed(t) ==
    IF matches_blocked(t) THEN "Blocked"
    ELSE IF starts_with(t, SUDO_PREFIX) THEN "NeedsSudo"
    ELSE IF matches_dangerous(t) THEN "Dangerous"
    ELSE IF matches_confirm(t) THEN "NeedsConfirmation"
    ELSE IF matches_safe(t) THEN "Safe"
    ELSE "NeedsConfirmation"

\* faulty variant of normalize: the command is not lower-cased
normalize_case_sensitive(c) == trim(c)

\* cmd_lower.trim()
normalize(c) == trim(to_lowercase(c))

classify_command(c) == classify_trimmed(normalize(c))

-----------------------------------------------------------------------------
(* Strings are byte strings: String::len and the slice &s[..n] count bytes. *)
(* An ASCII byte is its character.  Three characters stand for bytes that   *)
(* are not ASCII: "@" is 0xEF (the lead byte of a three-byte character),    *)
(* "~" is a continuation byte (0xBF, 0xBD), "^" is 0xFF (never valid).      *)
(* U+FFFD, the replacement character, is the three bytes "@~~".             *)

REPLACEMENT_CHARACTER == "@~~"

INVALID_BYTE == "^"

is_continuation_byte(b) == b = "~"

\* s repeated n times
RECURSIVE repeat(_, _)
repeat(s, n) ==
    IF n = 0 THEN ""
    ELSE IF n % 2 = 0 THEN LET h == repeat(s, n \div 2) IN h \o h
    ELSE s \o repeat(s, n - 1)

\* String::from_utf8_lossy on process output made of well-formed sequences
\* and 0xFF bytes: each invalid byte becomes U+FFFD, the rest is kept
RECURSIVE from_utf8_lossy(_)
from_utf8_lossy(bytes) ==
    IF ~contains(bytes, INVALID_BYTE) THEN bytes
    ELSE IF Len(bytes) = 1
         THEN (IF bytes = INVALID_BYTE THEN REPLACEMENT_CHARACTER ELSE bytes)
    ELSE LET m == Len(bytes) \div 2 IN
         from_utf8_lossy(SubSeq(bytes, 1, m)) \o
         from_utf8_lossy(SubSeq(bytes, m + 1, Len(bytes)))

\* str::is_char_boundary
is_char_boundary(s, n) ==
    \/ n = 0
    \/ n = Len(s)
    \/ n < Len(s) /\ ~is_continuation_byte(CharAt(s, n + 1))

\* s.lines().count()
lines_count(s) ==
    Cardinality({i \in 1..Len(s) : CharAt(s, i) = "\n"})
    + (IF s # "" /\ CharAt(s, Len(s)) # "\n" THEN 1 ELSE 0)

\* s.lines().next(): None is reported as <<>>, Some(l) as <<l>>
first_line(s) ==
    IF s = "" THEN <<>>
    ELSE IF \E i \in 1..Len(s) : CharAt(s, i) = "\n"
         THEN LET i == CHOOSE i \in 1..Len(s) :
                          /\ CharAt(s, i) = "\n"
                          /\ \A j \in 1..(i - 1) : CharAt(s, j) # "\n"
              IN <<SubSeq(s, 1, i - 1)>>
    ELSE <<s>>

\* cmd.split_whitespace().next().unwrap_or(cmd)
first_token(c) ==
    LET t == trim_start(c) IN
    IF t = "" THEN c
    ELSE IF \E i \in 1..Len(t) : is_whitespace(CharAt(t, i))
         THEN LET i == CHOOSE i \in 1..Len(t) :
                          /\ is_whitespace(CharAt(t, i))
                          /\ \A j \in 1..(i - 1) : ~is_whitespace(CharAt(t, j))
              IN SubSeq(t, 1, i - 1)
    ELSE t

-----------------------------------------------------------------------------
(* What the operating system does with one spawn: the input of the executor *)
(* that the code does not control.                                          *)
(*   kind "exited"    the process ran and exited with `code`                *)
(*   kind "signaled"  the process ran and was killed (no exit code)         *)
(*   kind "spawn_err" the process could not be started (io::Error `e`)      *)
(*   kind "write_err" execute_with_sudo only: stdin.write_all failed        *)
(*   kind "wait_err"  execute_with_sudo only: wait_with_output failed       *)
(*   kind "timeout"   the timeout elapsed first                             *)

OUTPUT_BUDGET == 10000

Exited(code, out, err, ms) ==
    [kind |-> "exited", code |-> code, out |-> out, err |-> err, e |-> "", ms |-> ms]

Failed(kind, e, ms) ==
    [kind |-> kind, code |-> 0, out |-> "", err |-> "", e |-> e, ms |-> ms]

\* ExitStatus::code(): None is reported as <<>>
status_code(os) == IF os.kind = "exited" THEN <<os.code>> ELSE <<>>

\* ExitStatus::success()
status_success(os) == os.kind = "exited" /\ os.code = 0

\* faulty variant of unwrap_or: a missing exit code is reported as 0
unwrap_or_zero(opt, default) == IF opt = <<>> THEN 0 ELSE opt[1]

\* Option::unwrap_or
unwrap_or(opt, default) == IF opt = <<>> THEN default ELSE opt[1]

\* the nominal run: stdout "X", empty stderr, exit code 0
NominalOutcome == Exited(0, "X", "", 5)

ExecFaults == {
    Exited(0, "out", "warn", 5),
    Exited(1, "", "ls: cannot access 'q': No such file or directory\n", 5),
    Exited(2, "", "sh: 1: frobnicate: command not found\n", 5),
    Exited(1, "", "cat: /etc/shadow: Permission denied\n", 5),
    Exited(255, "", "", 5),
    Failed("signaled", "", 5),
    Failed("spawn_err", "No such file or directory (os error 2)", 0),
    Failed("timeout", "", 30000),
    Exited(0, repeat("a", OUTPUT_BUDGET + 1), "", 7),
    Exited(0, repeat("a", OUTPUT_BUDGET - 1) \o INVALID_BYTE, "", 7) }

ExecOutcomes == {NominalOutcome} \cup ExecFaults

-----------------------------------------------------------------------------
(* execute_command *)

Ok(v) == [tag |-> "Ok", val |-> v]

Err(e) == [tag |-> "Err", val |-> e]

Panic == [tag |-> "Panic", val |-> "byte index is not a char boundary"]

NoReturn == [tag |-> "None", val |-> ""]

CommandResult(command, exit_code, stdout, stderr, output, duration_ms, success, summary, needed_sudo) ==
    [command |-> command, exit_code |-> exit_code, stdout |-> stdout,
     stderr |-> stderr, output |-> output, duration_ms |-> duration_ms,
     success |-> success, summary |-> summary, needed_sudo |-> needed_sudo]

BLOCKED_MESSAGE == "This command is blocked for safety reasons."

generate_summary(c, stdout, stderr, success, duration_ms) ==
    LET cmd_base == first_token(c)
        ms == ToString(duration_ms) IN
    IF ~success THEN
        IF contains(stderr, "command not found")
            THEN "'" \o cmd_base \o "' is not installed"
        ELSE IF contains(stderr, "No such file") THEN "File or directory not found"
        ELSE IF contains(stderr, "Permission denied")
            THEN "Permission denied - may need admin access"
        ELSE "Command failed (" \o ms \o "ms)"
    ELSE IF cmd_base \in {"ls", "find", "tree"}
        THEN "Found " \o ToString(lines_count(stdout)) \o " items (" \o ms \o "ms)"
    ELSE IF cmd_base \in {"grep", "rg", "ag"}
        THEN (IF lines_count(stdout) = 0 THEN "No matches found"
              ELSE "Found " \o ToString(lines_count(stdout)) \o " matches (" \o ms \o "ms)")
    ELSE IF cmd_base \in {"cat", "head", "tail"}
        THEN "Displayed " \o ToString(lines_count(stdout)) \o " lines (" \o ms \o "ms)"
    ELSE IF cmd_base \in {"cp", "mv"} THEN "File operation complete"
    ELSE IF cmd_base = "mkdir" THEN "Directory created"
    ELSE IF cmd_base \in {"rm", "rmdir"} THEN "Deleted successfully"
    ELSE IF cmd_base = "git"
        THEN (IF contains(c, "status")
                  THEN (IF contains(stdout, "nothing to commit")
                        THEN "Working tree clean" ELSE "Changes detected")
              ELSE IF contains(c, "commit") THEN "Committed successfully"
              ELSE IF contains(c, "push") THEN "Pushed to remote"
              ELSE "Git operation complete (" \o ms \o "ms)")
    ELSE IF cmd_base = "cargo"
        THEN (IF contains(c, "build")
                  THEN (IF contains(stdout, "Finished") \/ contains(stderr, "Finished")
                        THEN "Build complete" ELSE "Build in progress...")
              ELSE IF contains(c, "test")
                  THEN (IF contains(stdout, "passed")
                        THEN "Tests passed" ELSE "Tests complete")
              ELSE "Cargo complete (" \o ms \o "ms)")
    ELSE "Complete (" \o ms \o "ms)"

\* faulty variant of combine: the newline is inserted unconditionally
combine_always_newline(stdout, stderr) == stdout \o "\n" \o stderr

\* stdout, then stderr, a newline between them when both are non-empty
combine(stdout, stderr) ==
    IF stderr = "" THEN stdout
    ELSE IF stdout = "" THEN stderr
    ELSE stdout \o "\n" \o stderr

truncation_marker(total) ==
    "...\n[Output truncated, " \o ToString(total) \o " bytes total]"

\* the Ok(Ok(output)) arm of execute_command
completed_result(c, os) ==
    LET stdout == from_utf8_lossy(os.out)
        stderr == from_utf8_lossy(os.err)
        exit_code == unwrap_or(status_code(os), -1)
        success == status_success(os)
        combined == combine(stdout, stderr)
        needed_sudo == \/ contains(stderr, "Permission denied")
                       \/ contains(stderr, "Operation not permitted")
                       \/ contains(stderr, "password") IN
    IF Len(combined) > OUTPUT_BUDGET /\ ~is_char_boundary(combined, OUTPUT_BUDGET)
    THEN Panic
    ELSE Ok(CommandResult(c, exit_code, stdout, stderr,
            IF Len(combined) > OUTPUT_BUDGET
            THEN SubSeq(combined, 1, OUTPUT_BUDGET) \o truncation_marker(Len(combined))
            ELSE combined,
            os.ms, success,
            generate_summary(c, stdout, stderr, success, os.ms),
            needed_sudo))

\* faulty variant of execute_command_spawns: the Blocked check is missing
execute_command_spawns_unchecked(c) == TRUE

\* whether execute_command reaches Command::new(shell)...output()
execute_command_spawns(c) == classify_command(c) # "Blocked"

\* the result of the early return for a Blocked command
blocked_result(c) ==
    Ok(CommandResult(c, -1, "", BLOCKED_MESSAGE, BLOCKED_MESSAGE, 0, FALSE,
                     "Command blocked for safety", FALSE))

\* faulty variant of timeout_result: the Elapsed error is propagated with `?`
timeout_propagated(c, timeout_secs) == Err("deadline has elapsed")

\* the Err(_) arm: the timeout elapsed
timeout_result(c, timeout_secs) ==
    Ok(CommandResult(c, -1, "", "Command timed out",
       "Command timed out after " \o ToString(timeout_secs) \o " seconds",
       timeout_secs * 1000, FALSE,
       "Timed out after " \o ToString(timeout_secs) \o "s", FALSE))

\* the Ok(Err(e)) arm: the process could not be run
spawn_failed_result(c, os) ==
    Ok(CommandResult(c, -1, "", os.e, "Failed to execute: " \o os.e,
       os.ms, FALSE, "Command failed: " \o os.e, FALSE))

\* execute_command(cmd, timeout_secs) when the operating system answers the
\* spawn with os: the value returned
execute_command(c, timeout_secs, os) ==
    IF ~execute_command_spawns(c) THEN blocked_result(c)
    ELSE IF os.kind \in {"exited", "signaled"} THEN completed_result(c, os)
    ELSE IF os.kind = "timeout" THEN timeout_result(c, timeout_secs)
    ELSE spawn_failed_result(c, os)

\* the subprocesses of execute_command that are still running, neither
\* waited on nor killed, when it returns: on a timeout the output() future is
\* dropped, and a tokio Command without kill_on_drop leaves its child running
execute_command_left_running(c, os) ==
    IF execute_command_spawns(c) /\ os.kind = "timeout" THEN 1 ELSE 0

\* the spawns execute_command reaches
execute_command_spawned(c) ==
    IF execute_command_spawns(c) THEN <<(<<"sh", c>>)>> ELSE <<>>

\* no spawn was reached
NoOutcome == Failed("none", "", 0)

-----------------------------------------------------------------------------
(* execute_with_sudo (the POSIX build) *)

SudoOutcomes == {
    Exited(0, "X", "[sudo] password for user: ", 5),
    Exited(0, "X", "[sudo] password for user: \nwarn\n", 5),
    Exited(1, "", "[sudo] password for user: \nSorry, try again.\n", 5),
    Exited(0, "", "Sorry, try again.\n", 5),
    Exited(1, "", "[sudo] password for user: Sorry, try again.\n", 5),
    Exited(1, "", "[sudo] password for user: \napt: not found\n", 5),
    Exited(1, "", "", 5),
    Failed("signaled", "", 5),
    Failed("spawn_err", "No such file or directory (os error 2)", 0),
    Failed("write_err", "Broken pipe (os error 32)", 1),
    Failed("wait_err", "No child processes (os error 10)", 1),
    Failed("timeout", "", 30000) }

\* cmd.strip_prefix("sudo ").unwrap_or(cmd)
actual_cmd(c) == strip_prefix_or(c, SUDO_PREFIX)

\* the removal of the password prompt from stderr
scrub_prompt(stderr) ==
    IF \E i \in 1..Len(stderr) : CharAt(stderr, i) = "\n"
    THEN LET idx == CHOOSE i \in 1..Len(stderr) :
                        /\ CharAt(stderr, i) = "\n"
                        /\ \A j \in 1..(i - 1) : CharAt(stderr, j) # "\n"
             line == SubSeq(stderr, 1, idx - 1) IN
         IF contains(line, "password for") \/ contains(line, "[sudo]")
         THEN SubSeq(stderr, idx + 1, Len(stderr))
         ELSE stderr
    ELSE stderr

is_wrong_password(stderr) ==
    \/ contains(stderr, "incorrect password")
    \/ contains(stderr, "Sorry, try again")
    \/ contains(stderr, "Authentication failure")

\* the Ok(Ok(output)) arm of execute_with_sudo
sudo_completed_result(c, os) ==
    LET stdout == from_utf8_lossy(os.out)
        stderr == scrub_prompt(from_utf8_lossy(os.err))
        exit_code == unwrap_or(status_code(os), -1)
        success == status_success(os)
        wrong_password == is_wrong_password(stderr)
        summary == IF wrong_password THEN "Incorrect password"
                   ELSE IF success
                       THEN generate_summary(c, stdout, stderr, success, os.ms)
                   ELSE "Command failed: "
                            \o unwrap_or(first_line(stderr), "unknown error") IN
    Ok(CommandResult(SUDO_PREFIX \o actual_cmd(c), exit_code, stdout, stderr,
                     combine(stdout, stderr), os.ms,
                     success /\ ~wrong_password, summary, TRUE))

\* the subprocesses of execute_with_sudo still running when it returns: the
\* child is dropped, neither waited on nor killed, when the write of the
\* secret fails and when the timeout elapses
execute_with_sudo_left_running(os) ==
    IF os.kind \in {"write_err", "timeout"} THEN 1 ELSE 0

\* faulty variant of execute_with_sudo: a failure is reported together with
\* the secret that was being fed to the elevation tool
execute_with_sudo_reporting_secret(c, pw, timeout_secs, os) ==
    IF os.kind \in {"exited", "signaled"} THEN sudo_completed_result(c, os)
    ELSE Err(os.e \o " (password " \o pw \o ")")

\* execute_with_sudo(cmd, password, timeout_secs) when the operating system
\* answers with `os`: the value returned
execute_with_sudo(c, pw, timeout_secs, os) ==
    IF os.kind = "spawn_err" THEN Err(os.e)
    ELSE IF os.kind = "write_err" THEN Err(os.e)
    ELSE IF os.kind \in {"exited", "signaled"} THEN sudo_completed_result(c, os)
    ELSE IF os.kind = "timeout"
    THEN Ok(CommandResult(SUDO_PREFIX \o actual_cmd(c), -1, "", "Command timed out",
            "Command timed out after " \o ToString(timeout_secs) \o " seconds",
            timeout_secs * 1000, FALSE,
            "Timed out after " \o ToString(timeout_secs) \o "s", TRUE))
    ELSE Ok(CommandResult(SUDO_PREFIX \o actual_cmd(c), -1, "", os.e,
            "Failed to execute: " \o os.e, os.ms, FALSE,
            "Command failed: " \o os.e, TRUE))

-----------------------------------------------------------------------------
(* AgentHost::extract_commands: the three regular expressions, matched as   *)
(* the regex crate matches them (leftmost first, non-overlapping).          *)

\* the first position >= from where p occurs in s, 0 when there is none
find_from(s, p, from) ==
    LET hits == {i \in from..(Len(s) - Len(p) + 1) : SubSeq(s, i, i + Len(p) - 1) = p} IN
    IF hits = {} THEN 0 ELSE CHOOSE i \in hits : \A j \in hits : i <= j

OPEN_TAG == "<command>"

CLOSE_TAG == "</command>"

\* tag_re at position i: <<body, position after the match>>, or <<>>; the
\* body is matched lazily and holds no newline
tag_match_at(s, i) ==
    IF ~has_at(s, i, OPEN_TAG) THEN <<>>
    ELSE LET b == i + Len(OPEN_TAG)
             j == find_from(s, CLOSE_TAG, b) IN
         IF j = 0 \/ contains(SubSeq(s, b, j - 1), "\n") THEN <<>>
         ELSE <<SubSeq(s, b, j - 1), j + Len(CLOSE_TAG)>>

RECURSIVE tag_captures(_, _)
tag_captures(s, from) ==
    LET starts == {i \in from..Len(s) : tag_match_at(s, i) # <<>>} IN
    IF starts = {} THEN <<>>
    ELSE LET i == CHOOSE i \in starts : \A j \in starts : i <= j
             m == tag_match_at(s, i) IN
         <<m[1]>> \o tag_captures(s, m[2])

RUN_MARKER == "[RUN]"

\* SANY's strings cannot hold a backtick: "%" stands for that character
BACKTICK == "%"

FENCE == BACKTICK \o BACKTICK \o BACKTICK

\* the opening fence (three backticks, an optional bash, sh or shell, a
\* newline) at position k: the position after the newline, or 0
fence_open_at(s, k) ==
    LET opens == {FENCE \o l \o "\n" : l \in {"bash", "sh", "shell", ""}}
        hit == {o \in opens : has_at(s, k, o)} IN
    IF hit = {} THEN 0 ELSE k + Len(CHOOSE o \in hit : TRUE)

\* block_re at position i: the marker, lazily anything, an opening fence,
\* lazily the body, a closing fence
block_match_at(s, i) ==
    IF ~has_at(s, i, RUN_MARKER) THEN <<>>
    ELSE LET ks == {k \in (i + Len(RUN_MARKER))..Len(s) :
                        /\ fence_open_at(s, k) # 0
                        /\ find_from(s, FENCE, fence_open_at(s, k)) # 0} IN
         IF ks = {} THEN <<>>
         ELSE LET k == CHOOSE k \in ks : \A j \in ks : k <= j
                  b == fence_open_at(s, k)
                  e == find_from(s, FENCE, b) IN
              <<SubSeq(s, b, e - 1), e + Len(FENCE)>>

RECURSIVE block_captures(_, _)
block_captures(s, from) ==
    LET starts == {i \in from..Len(s) : block_match_at(s, i) # <<>>} IN
    IF starts = {} THEN <<>>
    ELSE LET i == CHOOSE i \in starts : \A j \in starts : i <= j
             m == block_match_at(s, i) IN
         <<m[1]>> \o block_captures(s, m[2])

\* str::lines
RECURSIVE lines(_)
lines(s) ==
    IF s = "" THEN <<>>
    ELSE LET n == find_from(s, "\n", 1) IN
         IF n = 0 THEN <<s>>
         ELSE <<SubSeq(s, 1, n - 1)>> \o lines(SubSeq(s, n + 1, Len(s)))

EXECUTE_MARKER == "[EXECUTE]"

RECURSIVE skip_whitespace(_, _)
skip_whitespace(s, i) ==
    IF i <= Len(s) /\ is_whitespace(CharAt(s, i)) THEN skip_whitespace(s, i + 1) ELSE i

\* exec_re at position i: the marker, whitespace, a non-empty span between
\* two backticks
exec_match_at(s, i) ==
    IF ~has_at(s, i, EXECUTE_MARKER) THEN <<>>
    ELSE LET q == skip_whitespace(s, i + Len(EXECUTE_MARKER)) IN
         IF q > Len(s) \/ CharAt(s, q) # BACKTICK THEN <<>>
         ELSE LET e == find_from(s, BACKTICK, q + 1) IN
              IF e = 0 \/ e = q + 1 THEN <<>>
              ELSE <<SubSeq(s, q + 1, e - 1), e + 1>>

RECURSIVE exec_captures(_, _)
exec_captures(s, from) ==
    LET starts == {i \in from..Len(s) : exec_match_at(s, i) # <<>>} IN
    IF starts = {} THEN <<>>
    ELSE LET i == CHOOSE i \in starts : \A j \in starts : i <= j
             m == exec_match_at(s, i) IN
         <<m[1]>> \o exec_captures(s, m[2])

\* trim every candidate; drop the empty ones and, in a block, the # lines
RECURSIVE trimmed_kept(_, _)
trimmed_kept(cands, skip_comments) ==
    IF cands = <<>> THEN <<>>
    ELSE LET c == trim(Head(cands))
             rest == trimmed_kept(Tail(cands), skip_comments) IN
         IF c = "" \/ (skip_comments /\ starts_with(c, "#")) THEN rest
         ELSE <<c>> \o rest

RECURSIVE block_lines(_)
block_lines(bodies) ==
    IF bodies = <<>> THEN <<>>
    ELSE lines(Head(bodies)) \o block_lines(Tail(bodies))

\* faulty variant of extract_commands: the inline spans are collected first
extract_commands_spans_first(resp) ==
    trimmed_kept(exec_captures(resp, 1), FALSE)
    \o trimmed_kept(tag_captures(resp, 1), FALSE)
    \o trimmed_kept(block_lines(block_captures(resp, 1)), TRUE)

extract_commands(resp) ==
    trimmed_kept(tag_captures(resp, 1), FALSE)
    \o trimmed_kept(block_lines(block_captures(resp, 1)), TRUE)
    \o trimmed_kept(exec_captures(resp, 1), FALSE)

-----------------------------------------------------------------------------
(* Inputs *)

\* number of fragments a command argument is put together from
MaxFrags == 2

\* number of times, within one agent_chat run, that the provider answers
\* something else than on its previous call or a command does not run nominally
MaxDeviations == 1

Fragments == {
    "ls", "rm", "cp ", "drop", "git reset", " --hard",
    "sudo ", "rm -rf /", "RM -RF /", "Nmap", ">/dev/sda", "mkfs.ext4",
    "frobnicate", "box.txt", " rm", " ", "\t" }

RECURSIVE Concatenations(_)
Concatenations(n) ==
    IF n = 0 THEN {""}
    ELSE LET shorter == Concatenations(n - 1) IN
         shorter \cup {f \o r : f \in Fragments, r \in shorter}

CommandInputs == Concatenations(MaxFrags)

\* the cmd arguments of the two executors
ExecCommandInputs == {
    "ls -la", "cat file.txt", "git status", "grep -r TODO .",
    "rm -rf /", "  RM -RF /tmp ", "ls; rm -rf /*", "cat x >/dev/sda", "nmap host",
    "sudo rm -rf /", "sudo apt update", "SUDO ls", "sudo mkfs.ext4 /dev/sdb1",
    " sudo apt update", "sudo sudo ls",
    "rm file.txt", "cp a b", "frobnicate --now", "" }

PasswordInputs == {"hunter2", ""}

TimeoutInputs == {30, 60}

\* the texts the provider may answer with
Responses == {
    "All done.",
    "Nothing to run: <command>   </command>",
    "Listing. <command>ls -la</command>",
    "<command>rm -rf /</command>",
    "[EXECUTE] %frobnicate --now%",
    "<command>rm file.txt</command>",
    "<command>sudo apt update</command>",
    "[RUN]\n%%%bash\n# list, then copy\nls -la\ncp a b\nfrobnicate --now\n%%%",
    "<command>cat file.txt</command> then [EXECUTE] %nmap host%",
    "<command>ls -la</command> and <command>cat file.txt</command>" }

\* the response arguments of extract_commands
ExtractInputs == Responses \cup {
    "",
    "[EXECUTE] %pwd% then <command>ls -la</command> and [RUN]\n%%%sh\n\n# c\n  cat a  \n\t#d\nrm b\n%%%",
    "<command> </command>[EXECUTE] % %[RUN]%%%\n \n#only\n%%%",
    "<command>ls</command>[EXECUTE]%id%<command>pwd</command> [EXECUTE]\n%df%",
    "<command>multi\nline</command>[RUN] first %%%shell\nls\n%%% [RUN] %%%bash\ncat a\ncat b%%%",
    "[RUN]\n%%%python\nprint(1)\n%%%\n<command>du</command>" }

MessageInputs == { <<[role |-> "user", content |-> "what is in this folder?"]>> }

-----------------------------------------------------------------------------
(* AgentHost::agent_chat *)

\* faulty variant of MAX_ITERATIONS: the loop runs once more
MAX_ITERATIONS_one_more == 10 + 1

MAX_ITERATIONS == 10

AGENT_TIMEOUT_SECS == 30

AGENT_SYSTEM_PROMPT ==
    "You are Little Helper, a friendly AI assistant with the ability to run commands on the user's computer."

MAX_ITERATIONS_MESSAGE ==
    "I've reached the maximum number of command iterations. Please continue manually."

ChatMessage(role, content) == [role |-> role, content |-> content]

ToolResult(command, result) == [command |-> command, result |-> result]

\* faulty variant of should_execute: Safe commands run without the caller's opt-in
should_execute_ignoring_opt_in(danger, auto) == danger = "Safe"

\* the should_execute match
should_execute(danger, auto) ==
    IF danger = "Safe" THEN auto ELSE FALSE

command_output_turn(c, result) ==
    ChatMessage("user", "[Command Output]\n$ " \o c \o "\n" \o result.output
                        \o "\nExit code: " \o ToString(result.exit_code))

command_blocked_turn(c) ==
    ChatMessage("user", "[Command Blocked]\n$ " \o c \o "\n" \o BLOCKED_MESSAGE)

\* faulty variant of loop_return: the accumulated results are not handed back
loop_return_dropping_results(text, results) ==
    Ok([text |-> text, tool_results |-> <<>>])

\* the value of `return Ok((response, tool_results))`
loop_return(text, results) == Ok([text |-> text, tool_results |-> results])

\* the value of `router.generate(..).await?` returning early
provider_error_return(e) == Err(e)

-----------------------------------------------------------------------------
(* run_ai_generation (crates/app/src/main.rs): the application's own loop  *)
(* over provider responses, run on a background thread.  Its three regexes *)
(* have the form <tag>([^<]+)</tag>.                                       *)

PREVIEW_OPEN == "<preview>"

PREVIEW_CLOSE == "</preview>"

SEARCH_OPEN == "<search>"

SEARCH_CLOSE == "</search>"

\* <open>([^<]+)<close> at position i: <<body, position after the match>>, or
\* <<>>; the body is not empty and ends at the first "<"
plain_tag_match_at(s, i, open, close) ==
    IF ~has_at(s, i, open) THEN <<>>
    ELSE LET b == i + Len(open)
             j == find_from(s, "<", b) IN
         IF j = 0 \/ j = b \/ ~has_at(s, j, close) THEN <<>>
         ELSE <<SubSeq(s, b, j - 1), j + Len(close)>>

\* captures_iter(...).filter_map(|cap| cap.get(1).map(|m| m.as_str().trim()...))
RECURSIVE plain_tag_captures(_, _, _, _)
plain_tag_captures(s, from, open, close) ==
    LET starts == {i \in from..Len(s) : plain_tag_match_at(s, i, open, close) # <<>>} IN
    IF starts = {} THEN <<>>
    ELSE LET i == CHOOSE i \in starts : \A j \in starts : i <= j
             m == plain_tag_match_at(s, i, open, close) IN
         <<trim(m[1])>> \o plain_tag_captures(s, m[2], open, close)

ai_searches(resp) == plain_tag_captures(resp, 1, SEARCH_OPEN, SEARCH_CLOSE)

ai_commands(resp) == plain_tag_captures(resp, 1, OPEN_TAG, CLOSE_TAG)

\* Option<PathBuf>: None is <<>>
NoPreview == <<>>

\* what dirs::home_dir() may return
HomeDirs == {<<"/home/user">>, <<>>}

\* the path of the first preview tag, "~/" replaced by the home directory
expand_preview_path(path_str, home) ==
    IF starts_with(path_str, "~/") /\ home # <<>>
    THEN home[1] \o "/" \o SubSeq(path_str, 3, Len(path_str))
    ELSE path_str

\* file_to_preview after the preview check of one response
preview_after(resp, current, home, exists) ==
    LET caps == plain_tag_captures(resp, 1, PREVIEW_OPEN, PREVIEW_CLOSE) IN
    IF caps # <<>> /\ exists THEN <<expand_preview_path(caps[1], home)>>
    ELSE current

\* web_search answering with results
SearchOk == [tag |-> "Ok", val |-> [output |-> "tokio is an asynchronous runtime"]]

\* what web_search may return
SearchOutcomes == {SearchOk, [tag |-> "Err", val |-> "error sending request"]}

\* the `for query in &searches` loop
RECURSIVE search_results(_, _)
search_results(queries, w) ==
    IF queries = <<>> THEN <<>>
    ELSE LET q == Head(queries) IN
         << IF w.tag = "Ok"
            THEN "[Search Results for '" \o q \o "']\n" \o w.val.output
            ELSE "[Search failed for '" \o q \o "']: " \o w.val >>
         \o search_results(Tail(queries), w)

\* the texts the provider may answer the application with
AiResponses == {
    "Here you go.",
    "<command>ls -la</command>",
    "<command>cp a b</command> and <command> </command>",
    "<command>rm -rf /</command><command>cat file.txt</command>",
    "<search>rust tokio</search>",
    "See <preview> ~/notes.txt </preview>" }

\* the commands these texts carry
AiCommands ==
    UNION {{ai_commands(r)[i] : i \in 1..Len(ai_commands(r))} : r \in AiResponses}

\* execute_command(cmd, 30) of the `for cmd in &commands` loop, for each of
\* these commands and each answer of the operating system
ai_execute_command ==
    [c \in AiCommands, os \in ExecOutcomes |->
        execute_command(c, AGENT_TIMEOUT_SECS, os)]

\* the commands of one response that the `for cmd in &commands` loop hands to
\* execute_command, up to and including the first whose execution panics
RECURSIVE ai_executed(_, _)
ai_executed(cmds, os) ==
    IF cmds = <<>> THEN <<>>
    ELSE LET c == Head(cmds) IN
         IF classify_command(c) # "Safe" THEN ai_executed(Tail(cmds), os)
         ELSE IF ai_execute_command[c, os].tag = "Panic" THEN <<c>>
         ELSE <<c>> \o ai_executed(Tail(cmds), os)

\* whether one of these executions panics
ai_commands_panic(cmds, os) ==
    \E i \in 1..Len(cmds) :
        /\ classify_command(cmds[i]) = "Safe"
        /\ ai_execute_command[cmds[i], os].tag = "Panic"

\* the entries the `for cmd in &commands` loop pushes to results
RECURSIVE command_results(_, _)
command_results(cmds, os) ==
    IF cmds = <<>> THEN <<>>
    ELSE LET c == Head(cmds)
             danger == classify_command(c)
             r == ai_execute_command[c, os] IN
         << IF danger = "Safe"
            THEN IF r.tag = "Ok"
                 THEN "[Command Output: " \o c \o "]\n" \o r.val.output
                 ELSE "[Command failed: " \o c \o "]: " \o r.val
            ELSE IF danger = "Blocked"
            THEN "[Command blocked for safety: " \o c \o "]"
            ELSE "[Command '" \o c \o "' needs user confirmation - skipping for now]" >>
         \o command_results(Tail(cmds), os)

\* results.join("\n\n")
RECURSIVE join(_, _)
join(strs, sep) ==
    IF strs = <<>> THEN ""
    ELSE IF Len(strs) = 1 THEN strs[1]
    ELSE strs[1] \o sep \o join(Tail(strs), sep)

\* the spawns the executions of cmds reach
RECURSIVE spawned_by(_)
spawned_by(cmds) ==
    IF cmds = <<>> THEN <<>>
    ELSE execute_command_spawned(Head(cmds)) \o spawned_by(Tail(cmds))

AI_MAX_ITERATIONS == 5

AI_MAX_ITERATIONS_MESSAGE ==
    "I've done several steps of research. Let me know if you need more details!"

APP_SYSTEM_PROMPT == "You are Little Helper, a friendly assistant."

AiResult(text, preview_file, error) ==
    [response |-> text, preview_file |-> preview_file, error |-> error]

\* tx.send(ai_result)
Sent(result) == [tag |-> "Sent", val |-> result]

-----------------------------------------------------------------------------
(* The application's UI thread and its background generation threads:      *)
(* send_message, start_ai_generation and poll_ai_response of AppState.      *)

\* number of messages the user sends in one behaviour
MaxSends == 2

WELCOME_MESSAGE ==
    "Hi friend! I'm your Little Helper. What would you like me to help you with today?"

THINKING == "Thinking..."

\* what the user may have typed when Enter or Send is pressed
InputTexts == {"find my notes", "  "}

\* chat_history.iter().rev().take(10).rev()
recent_messages(history) ==
    SubSeq(history, IF Len(history) > 10 THEN Len(history) - 9 ELSE 1, Len(history))

\* the messages send_message hands to start_ai_generation
api_messages(history) ==
    <<ChatMessage("system", APP_SYSTEM_PROMPT)>> \o recent_messages(history)

\* what one run of run_ai_generation ends with: a result sent on the
\* channel, with a response or with an error, or a panic of the thread
GenerationOutcomes == {
    Sent(AiResult("Here you go.", NoPreview, <<>>)),
    Sent(AiResult("See <preview>/tmp/a.txt</preview>", <<"/tmp/a.txt">>, <<>>)),
    Sent(AiResult("", NoPreview, <<"provider error">>)),
    Panic }

\* <tag>[^<]*</tag> removed everywhere, for one tag
RECURSIVE remove_tagged(_, _, _)
remove_tagged(s, open, close) ==
    LET starts == {i \in 1..Len(s) :
                      /\ has_at(s, i, open)
                      /\ find_from(s, "<", i + Len(open)) # 0
                      /\ has_at(s, find_from(s, "<", i + Len(open)), close)} IN
    IF starts = {} THEN s
    ELSE LET i == CHOOSE i \in starts : \A j \in starts : i <= j
             e == find_from(s, "<", i + Len(open)) + Len(close) IN
         SubSeq(s, 1, i - 1) \o remove_tagged(SubSeq(s, e, Len(s)), open, close)

clean_ai_response(resp) ==
    trim(remove_tagged(remove_tagged(remove_tagged(resp,
             PREVIEW_OPEN, PREVIEW_CLOSE), SEARCH_OPEN, SEARCH_CLOSE),
             OPEN_TAG, CLOSE_TAG))

\* format_error_message for an error that names no key, rate, network or
\* quota problem
format_error_message(e) ==
    "Sorry, I ran into an issue. Here's what happened:\n\n" \o e
    \o "\n\nIf this keeps happening, try restarting the app or checking your internet connection."

\* the entry poll_ai_response pushes for a result
assistant_entry(result) ==
    IF result.error # <<>>
    THEN ChatMessage("assistant", format_error_message(result.error[1]))
    ELSE ChatMessage("assistant",
             IF clean_ai_response(result.response) = "" THEN result.response
             ELSE clean_ai_response(result.response))

\* a thread started by start_ai_generation and the channel made for it
Generation(messages) ==
    [messages |-> messages, status |-> "running",
     result |-> AiResult("", NoPreview, <<>>), received |-> FALSE]

-----------------------------------------------------------------------------
(* ProviderRouter::generate (crates/providers/src/router.rs) *)

\* length of config.provider_preference
MaxProviders == 2

\* the names the match of generate knows
KnownProviders == {"local", "openai", "anthropic", "gemini"}

ProviderNames == KnownProviders \cup {"mistral"}

RECURSIVE Preferences(_)
Preferences(n) ==
    IF n = 0 THEN {<<>>}
    ELSE Preferences(n - 1)
         \cup {<<p>> \o rest : p \in ProviderNames, rest \in Preferences(n - 1)}

\* what a provider does in this behaviour: it answers, its request fails,
\* or its client cannot be constructed because its API key is not set; the
\* local client is constructed without a key
ProviderHealths ==
    {h \in [KnownProviders -> {"ok", "request_failed", "no_key"}] :
        h["local"] # "no_key"}

API_KEY_VARIABLE ==
    [p \in KnownProviders \ {"local"} |->
        IF p = "openai" THEN "OPENAI_API_KEY"
        ELSE IF p = "anthropic" THEN "ANTHROPIC_API_KEY"
        ELSE "GEMINI_API_KEY"]

\* XClient::new(model): Ok for the local client, Err without the API key
client_new(provider, health) ==
    IF provider # "local" /\ health[provider] = "no_key"
    THEN Err(API_KEY_VARIABLE[provider] \o " not set")
    ELSE Ok(provider)

\* client.generate(messages.clone()).await
client_generate(provider, health) ==
    IF health[provider] = "ok" THEN Ok("response of " \o provider)
    ELSE Err(provider \o " error: 500 Internal Server Error")

\* the `for provider in &self.config.provider_preference` loop and the
\* return after it: the value returned and the providers whose generate
\* was called
RECURSIVE router_generate(_, _, _, _)
router_generate(preference, health, last_error, called) ==
    IF preference = <<>>
    THEN [ret |-> Err(unwrap_or(last_error, "No providers configured")),
          called |-> called]
    ELSE LET provider == Head(preference) IN
         IF provider \notin KnownProviders
         THEN router_generate(Tail(preference), health,
                              <<"Unknown provider: " \o provider>>, called)
         ELSE IF client_new(provider, health).tag = "Err"
         THEN [ret |-> client_new(provider, health), called |-> called]
         ELSE LET result == client_generate(provider, health) IN
              IF result.tag = "Ok"
              THEN [ret |-> result, called |-> Append(called, provider)]
              ELSE router_generate(Tail(preference), health, <<result.val>>,
                                   Append(called, provider))

-----------------------------------------------------------------------------
(* The state machine *)

NoResponse == ""

PROVIDER_ERROR == "provider error"

Init ==
    /\ entry \in {"classify_command", "execute_command", "execute_with_sudo",
                 "extract_commands", "agent_chat", "run_ai_generation", "app",
                 "generate"}
    /\ pc = "call"
    /\ cmd \in (IF entry \in {"extract_commands", "agent_chat", "run_ai_generation",
                             "app", "generate"}
                THEN {""}
                ELSE IF entry = "classify_command" THEN CommandInputs
                ELSE ExecCommandInputs)
    /\ password \in (IF entry = "execute_with_sudo" THEN PasswordInputs ELSE {""})
    /\ level = "none"
    /\ ret = NoReturn
    /\ auto_execute_safe \in (IF entry = "agent_chat" THEN BOOLEAN ELSE {FALSE})
    /\ all_messages \in (IF entry = "agent_chat"
                         THEN {<<ChatMessage("system", AGENT_SYSTEM_PROMPT)>> \o m :
                                   m \in MessageInputs}
                         ELSE IF entry = "run_ai_generation"
                         THEN {<<ChatMessage("system", APP_SYSTEM_PROMPT)>> \o m :
                                   m \in MessageInputs}
                         ELSE {<<>>})
    /\ tool_results = <<>>
    /\ iter = 0
    /\ response = NoResponse
    /\ commands = <<>>
    /\ executed_any = FALSE
    /\ spawn_log = <<>>
    /\ exec_calls = <<>>
    /\ last_os = NoOutcome
    /\ sent = <<>>
    /\ provider_calls = 0
    /\ provider_failed = FALSE
    /\ switches = 0
    /\ faults = 0
    /\ orphans = 0
    /\ file_to_preview = NoPreview
    /\ chat_history = <<ChatMessage("assistant", WELCOME_MESSAGE)>>
    /\ is_thinking = FALSE
    /\ thinking_status = ""
    /\ pending_preview = NoPreview
    /\ ai_result_rx = <<>>
    /\ generations = <<>>
    /\ provider_preference \in (IF entry = "generate" THEN Preferences(MaxProviders)
                                ELSE {<<>>})
    /\ provider_health \in (IF entry = "generate" THEN ProviderHealths
                            ELSE {[p \in KnownProviders |-> "ok"]})
    /\ providers_called = <<>>

\* extract_commands(response)
ExtractCommands ==
    /\ entry = "extract_commands" /\ pc = "call"
    /\ UNCHANGED app_vars
    /\ UNCHANGED router_vars
    /\ \E resp \in ExtractInputs :
          /\ response' = resp
          /\ commands' = extract_commands(resp)
    /\ pc' = "done"
    /\ UNCHANGED <<file_to_preview, entry, cmd, password, level, ret, auto_execute_safe,
                   all_messages, tool_results, iter, executed_any, spawn_log,
                   exec_calls, last_os, sent, provider_calls, provider_failed,
                   switches, faults, orphans>>

\* classify_command(cmd)
Classify ==
    /\ entry = "classify_command" /\ pc = "call"
    /\ UNCHANGED app_vars
    /\ UNCHANGED router_vars
    /\ level' = classify_command(cmd)
    /\ UNCHANGED orphans
    /\ pc' = "done"
    /\ UNCHANGED <<file_to_preview, entry, cmd, password, ret, auto_execute_safe,
                   all_messages, tool_results, iter, response, commands,
                   executed_any, spawn_log, exec_calls, last_os, sent,
                   provider_calls, provider_failed, switches, faults>>

\* execute_command(cmd, timeout_secs)
ExecuteCommand ==
    /\ entry = "execute_command" /\ pc = "call"
    /\ UNCHANGED app_vars
    /\ UNCHANGED router_vars
    /\ \E os \in ExecOutcomes, timeout_secs \in TimeoutInputs :
          /\ ret' = execute_command(cmd, timeout_secs, os)
          /\ last_os' = IF execute_command_spawned(cmd) = <<>> THEN NoOutcome ELSE os
          /\ orphans' = orphans + execute_command_left_running(cmd, os)
    /\ spawn_log' = spawn_log \o execute_command_spawned(cmd)
    /\ pc' = "done"
    /\ UNCHANGED <<file_to_preview, entry, cmd, password, level, auto_execute_safe,
                   all_messages, tool_results, iter, response, commands,
                   executed_any, exec_calls, sent, provider_calls,
                   provider_failed, switches, faults>>

\* execute_with_sudo(cmd, password, timeout_secs)
ExecuteWithSudo ==
    /\ entry = "execute_with_sudo" /\ pc = "call"
    /\ UNCHANGED app_vars
    /\ UNCHANGED router_vars
    /\ \E os \in SudoOutcomes, timeout_secs \in TimeoutInputs :
          /\ ret' = execute_with_sudo(cmd, password, timeout_secs, os)
          /\ last_os' = os
          /\ orphans' = orphans + execute_with_sudo_left_running(os)
    /\ spawn_log' = Append(spawn_log, <<"sudo", actual_cmd(cmd)>>)
    /\ pc' = "done"
    /\ UNCHANGED <<file_to_preview, entry, cmd, password, level, auto_execute_safe,
                   all_messages, tool_results, iter, response, commands,
                   executed_any, exec_calls, sent, provider_calls,
                   provider_failed, switches, faults>>

\* the commands of each response of the model
CommandsOf == [r \in Responses |-> extract_commands(r)]

\* the commands these responses carry
AgentCommands ==
    UNION {{CommandsOf[r][i] : i \in 1..Len(CommandsOf[r])} : r \in Responses}

\* execute_command(&cmd, 30) of the agent loop, for each of these commands
\* and each answer of the operating system
agent_execute_command ==
    [c \in AgentCommands, os \in ExecOutcomes |->
        execute_command(c, AGENT_TIMEOUT_SECS, os)]

\* what the provider may answer on this call: anything on the first call,
\* then its previous answer, or something else while deviations remain;
\* NoResponse is the provider failing
ProviderAnswers ==
    IF iter = 0 \/ switches + faults < MaxDeviations
    THEN Responses \cup {NoResponse}
    ELSE {response}

\* one iteration's router.generate(all_messages.clone()).await? and the
\* extraction that follows it
Generate ==
    /\ entry = "agent_chat" /\ pc = "call" /\ iter < MAX_ITERATIONS
    /\ UNCHANGED app_vars
    /\ UNCHANGED router_vars
    /\ iter' = iter + 1
    /\ sent' = all_messages
    /\ UNCHANGED orphans
    /\ provider_calls' = provider_calls + 1
    /\ \E answer \in ProviderAnswers :
          LET found == IF answer = NoResponse THEN extract_commands(answer)
                       ELSE CommandsOf[answer] IN
          /\ switches' = IF iter > 0 /\ answer # response
                         THEN switches + 1 ELSE switches
          /\ IF answer = NoResponse
             THEN /\ ret' = provider_error_return(PROVIDER_ERROR)
                  /\ provider_failed' = TRUE
                  /\ pc' = "done"
                  /\ UNCHANGED <<response, commands, executed_any>>
             ELSE /\ response' = answer
                  /\ commands' = found
                  /\ executed_any' = FALSE
                  /\ provider_failed' = provider_failed
                  /\ IF found = <<>>
                     THEN ret' = loop_return(answer, tool_results) /\ pc' = "done"
                     ELSE ret' = ret /\ pc' = "process"
    /\ UNCHANGED <<file_to_preview, entry, cmd, password, level, auto_execute_safe,
                   all_messages, tool_results, spawn_log, exec_calls, last_os,
                   faults>>

\* how the operating system may answer a spawn of the agent loop
AgentFaults == {
    Exited(1, "", "ls: cannot access 'q': No such file or directory\n", 5),
    Failed("timeout", "", 30000),
    Exited(0, repeat("a", OUTPUT_BUDGET - 1) \o INVALID_BYTE, "", 7) }

AgentOutcomes ==
    IF switches + faults < MaxDeviations THEN {NominalOutcome} \cup AgentFaults
    ELSE {NominalOutcome}

\* faulty variant of AfterCommand: the check of executed_any is missing and
\* the loop goes on to the next provider call
AfterCommand_without_check(left, any) ==
    IF left # <<>> THEN <<ret, "process">> ELSE <<ret, "call">>

\* the end of `for cmd in commands` and the `if !executed_any` after it:
\* the values of ret and pc once `left` commands remain to be processed
AfterCommand(left, any) ==
    IF left # <<>> THEN <<ret, "process">>
    ELSE IF ~any THEN <<loop_return(response, tool_results'), "done">>
    ELSE <<ret, "call">>

\* one pass of `for cmd in commands`; after the last command, the check of
\* executed_any that ends the iteration
ProcessCommand ==
    /\ entry = "agent_chat" /\ pc = "process" /\ commands # <<>>
    /\ UNCHANGED app_vars
    /\ UNCHANGED router_vars
    /\ LET c == Head(commands)
           danger == classify_command(c) IN
       /\ commands' = Tail(commands)
       /\ IF should_execute(danger, auto_execute_safe)
          THEN \E os \in AgentOutcomes :
                 LET r == agent_execute_command[c, os] IN
                 /\ faults' = IF os = NominalOutcome THEN faults ELSE faults + 1
                 /\ exec_calls' = Append(exec_calls, c)
                 /\ spawn_log' = spawn_log \o execute_command_spawned(c)
                 /\ last_os' = IF execute_command_spawned(c) = <<>> THEN NoOutcome ELSE os
                 /\ orphans' = orphans + execute_command_left_running(c, os)
                 /\ IF r.tag = "Ok"
                    THEN /\ all_messages' = all_messages \o
                               <<ChatMessage("assistant", response),
                                 command_output_turn(c, r.val)>>
                         /\ tool_results' = Append(tool_results, ToolResult(c, r.val))
                         /\ executed_any' = TRUE
                         /\ ret' = AfterCommand(Tail(commands), TRUE)[1]
                         /\ pc' = AfterCommand(Tail(commands), TRUE)[2]
                    ELSE /\ ret' = r
                         /\ pc' = "done"
                         /\ UNCHANGED <<all_messages, tool_results, executed_any>>
          ELSE IF danger = "Blocked"
          THEN /\ all_messages' = all_messages \o
                     <<ChatMessage("assistant", response), command_blocked_turn(c)>>
               /\ executed_any' = TRUE
               /\ UNCHANGED <<tool_results, spawn_log, exec_calls, last_os, faults,
                              orphans>>
               /\ ret' = AfterCommand(Tail(commands), TRUE)[1]
               /\ pc' = AfterCommand(Tail(commands), TRUE)[2]
          ELSE /\ UNCHANGED <<all_messages, tool_results, executed_any, spawn_log,
                              exec_calls, last_os, faults, orphans>>
               /\ ret' = AfterCommand(Tail(commands), executed_any)[1]
               /\ pc' = AfterCommand(Tail(commands), executed_any)[2]
    /\ UNCHANGED <<file_to_preview, entry, cmd, password, level, auto_execute_safe, iter,
                   response, sent, provider_calls, provider_failed, switches>>

\* the return after the loop
MaxIterationsReached ==
    /\ entry = "agent_chat" /\ pc = "call" /\ iter = MAX_ITERATIONS
    /\ UNCHANGED app_vars
    /\ UNCHANGED router_vars
    /\ ret' = loop_return(MAX_ITERATIONS_MESSAGE, tool_results)
    /\ pc' = "done"
    /\ UNCHANGED orphans
    /\ UNCHANGED <<file_to_preview, entry, cmd, password, level, auto_execute_safe,
                   all_messages, tool_results, iter, response, commands,
                   executed_any, spawn_log, exec_calls, last_os, sent,
                   provider_calls, provider_failed, switches, faults>>

\* Runtime::new() fails: the error is sent and the thread ends
AiRuntimeFailed ==
    /\ entry = "run_ai_generation" /\ pc = "call" /\ iter = 0
    /\ UNCHANGED app_vars
    /\ UNCHANGED router_vars
    /\ ret' = Sent(AiResult("", NoPreview, <<"Failed to start async runtime">>))
    /\ pc' = "done"
    /\ UNCHANGED <<entry, cmd, password, level, auto_execute_safe, all_messages,
                   tool_results, iter, response, commands, executed_any,
                   spawn_log, exec_calls, last_os, sent, provider_calls,
                   provider_failed, switches, faults, orphans, file_to_preview>>

\* what the provider may answer the application on this call
AiProviderAnswers ==
    IF iter = 0 \/ switches + faults < MaxDeviations
    THEN AiResponses \cup {NoResponse}
    ELSE {response}

\* the searches, the commands and the preview check of each response
AiParsed ==
    [r \in AiResponses |->
        [searches |-> ai_searches(r),
         cmds |-> ai_commands(r),
         has_preview |-> plain_tag_captures(r, 1, PREVIEW_OPEN, PREVIEW_CLOSE) # <<>>]]

\* how web_search may answer the searches of this iteration
AiSearchOutcomes(searches) ==
    IF searches # <<>> /\ switches + faults < MaxDeviations THEN SearchOutcomes
    ELSE {SearchOk}

\* how the operating system may answer the executions of this iteration
AiExecOutcomes(cmds) ==
    IF \E i \in 1..Len(cmds) : classify_command(cmds[i]) = "Safe"
    THEN AgentOutcomes ELSE {NominalOutcome}

\* one iteration of `for _iteration in 0..5`
AiIteration ==
    /\ entry = "run_ai_generation" /\ pc = "call" /\ iter < AI_MAX_ITERATIONS
    /\ UNCHANGED app_vars
    /\ UNCHANGED router_vars
    /\ iter' = iter + 1
    /\ sent' = all_messages
    /\ provider_calls' = provider_calls + 1
    /\ \E answer \in AiProviderAnswers :
          /\ switches' = IF iter > 0 /\ answer # response
                         THEN switches + 1 ELSE switches
          /\ IF answer = NoResponse
             THEN /\ ret' = Sent(AiResult("", NoPreview, <<PROVIDER_ERROR>>))
                  /\ provider_failed' = TRUE
                  /\ pc' = "done"
                  /\ UNCHANGED <<response, file_to_preview, all_messages, exec_calls,
                                 spawn_log, last_os, faults, orphans>>
             ELSE LET searches == AiParsed[answer].searches
                      cmds == AiParsed[answer].cmds
                      has_preview == AiParsed[answer].has_preview IN
                  \E home \in (IF has_preview THEN HomeDirs ELSE {<<>>}),
                     exists \in (IF has_preview THEN BOOLEAN ELSE {FALSE}),
                     w \in AiSearchOutcomes(searches),
                     os \in AiExecOutcomes(cmds) :
                  LET executed == ai_executed(cmds, os)
                      results == search_results(searches, w)
                                     \o command_results(cmds, os) IN
                  /\ response' = answer
                  /\ provider_failed' = provider_failed
                  /\ file_to_preview' = preview_after(answer, file_to_preview, home, exists)
                  /\ IF searches = <<>> /\ cmds = <<>>
                     THEN /\ ret' = Sent(AiResult(answer, file_to_preview', <<>>))
                          /\ pc' = "done"
                          /\ UNCHANGED <<all_messages, exec_calls, spawn_log, last_os,
                                         faults, orphans>>
                     ELSE /\ exec_calls' = exec_calls \o executed
                          /\ spawn_log' = spawn_log \o spawned_by(executed)
                          /\ last_os' = IF executed = <<>> THEN last_os ELSE os
                          /\ faults' = faults
                                + (IF os # NominalOutcome THEN 1 ELSE 0)
                                + (IF w # SearchOk THEN 1 ELSE 0)
                          /\ switches' + faults' <= MaxDeviations
                          /\ orphans' = orphans + (IF os.kind = "timeout"
                                                   THEN Len(executed) ELSE 0)
                          /\ IF ai_commands_panic(cmds, os)
                             THEN /\ ret' = Panic
                                  /\ pc' = "done"
                                  /\ all_messages' = Append(all_messages,
                                         ChatMessage("assistant", answer))
                             ELSE /\ ret' = ret
                                  /\ pc' = "call"
                                  /\ all_messages' = all_messages \o
                                       <<ChatMessage("assistant", answer)>> \o
                                       (IF results # <<>>
                                        THEN <<ChatMessage("user", join(results, "\n\n"))>>
                                        ELSE <<>>)
    /\ UNCHANGED <<entry, cmd, password, level, auto_execute_safe, tool_results,
                   commands, executed_any>>

\* the return after the application's loop
AiIterationsExhausted ==
    /\ entry = "run_ai_generation" /\ pc = "call" /\ iter = AI_MAX_ITERATIONS
    /\ UNCHANGED app_vars
    /\ UNCHANGED router_vars
    /\ ret' = Sent(AiResult(AI_MAX_ITERATIONS_MESSAGE, file_to_preview, <<>>))
    /\ pc' = "done"
    /\ UNCHANGED <<entry, cmd, password, level, auto_execute_safe, all_messages,
                   tool_results, iter, response, commands, executed_any,
                   spawn_log, exec_calls, last_os, sent, provider_calls,
                   provider_failed, switches, faults, orphans, file_to_preview>>

\* send_message, with start_ai_generation: a blank input returns at once;
\* otherwise the user entry is pushed and a thread is started with a new
\* channel whose receiver replaces the one held in ai_result_rx
SendMessage ==
    /\ entry = "app"
    /\ \E input_text \in InputTexts :
          IF trim(input_text) = "" THEN UNCHANGED app_vars
          ELSE /\ Len(generations) < MaxSends
               /\ chat_history' = Append(chat_history, ChatMessage("user", input_text))
               /\ is_thinking' = TRUE
               /\ thinking_status' = THINKING
               /\ generations' = Append(generations, Generation(api_messages(chat_history')))
               /\ ai_result_rx' = <<Len(generations) + 1>>
               /\ UNCHANGED pending_preview
    /\ UNCHANGED call_vars
    /\ UNCHANGED router_vars

\* a background thread reaches the end of run_ai_generation: tx.send(result)
\* succeeds while the receiver of its channel exists, and its failure is
\* ignored; a thread that panicked sends nothing
GenerationEnds ==
    /\ entry = "app"
    /\ \E g \in 1..Len(generations), outcome \in GenerationOutcomes :
          /\ generations[g].status = "running"
          /\ generations' = [generations EXCEPT ![g] =
                IF outcome = Panic THEN [@ EXCEPT !.status = "panicked"]
                ELSE IF ai_result_rx = <<g>>
                THEN [@ EXCEPT !.status = "sent", !.result = outcome.val]
                ELSE [@ EXCEPT !.status = "send_failed"]]
    /\ UNCHANGED <<chat_history, is_thinking, thinking_status, pending_preview,
                   ai_result_rx>>
    /\ UNCHANGED call_vars
    /\ UNCHANGED router_vars

\* poll_ai_response, called on every frame: rx.try_recv() on the receiver held
PollAiResponse ==
    /\ entry = "app"
    /\ IF /\ ai_result_rx # <<>>
          /\ generations[ai_result_rx[1]].status = "sent"
          /\ ~generations[ai_result_rx[1]].received
       THEN LET g == ai_result_rx[1]
                result == generations[g].result IN
            /\ is_thinking' = FALSE
            /\ thinking_status' = ""
            /\ ai_result_rx' = <<>>
            /\ generations' = [generations EXCEPT ![g].received = TRUE]
            /\ chat_history' = Append(chat_history, assistant_entry(result))
            /\ pending_preview' = IF result.error # <<>> THEN pending_preview
                                  ELSE result.preview_file
       ELSE UNCHANGED app_vars
    /\ UNCHANGED call_vars
    /\ UNCHANGED router_vars

\* ProviderRouter::generate(messages)
RouterGenerate ==
    /\ entry = "generate" /\ pc = "call"
    /\ LET r == router_generate(provider_preference, provider_health, <<>>, <<>>) IN
       /\ ret' = r.ret
       /\ providers_called' = r.called
    /\ pc' = "done"
    /\ UNCHANGED <<entry, cmd, password, level, auto_execute_safe, all_messages,
                   tool_results, iter, response, commands, executed_any,
                   spawn_log, exec_calls, last_os, sent, provider_calls,
                   provider_failed, switches, faults, orphans, file_to_preview,
                   provider_preference, provider_health>>
    /\ UNCHANGED app_vars

Next ==
    \/ Classify
    \/ ExtractCommands
    \/ ExecuteCommand
    \/ ExecuteWithSudo
    \/ Generate
    \/ ProcessCommand
    \/ MaxIterationsReached
    \/ AiRuntimeFailed
    \/ AiIteration
    \/ AiIterationsExhausted
    \/ SendMessage
    \/ GenerationEnds
    \/ PollAiResponse
    \/ RouterGenerate

Spec == Init /\ [][Next]_vars

-----------------------------------------------------------------------------
(* Properties *)

Range(seq) == {seq[i] : i \in DOMAIN seq}

\* The logs grow by one entry per step, so a property of the entry just
\* appended, holding in every state, holds of every entry.
Last(seq) == seq[Len(seq)]

\* lit occurs in s in some letter case
contains_ignore_case(s, lit) ==
    \E i \in 1..(Len(s) - Len(lit) + 1) :
        \A k \in 1..Len(lit) :
            to_lowercase_char(CharAt(s, i + k - 1)) = CharAt(lit, k)

ContainsDenyLiteral(c) ==
    \E i \in 1..Len(BLOCKED_COMMANDS) : contains_ignore_case(c, BLOCKED_COMMANDS[i])

\* c matches none of the four tables and lacks the sudo prefix
Unrecognized(c) ==
    LET t == normalize(c) IN
    /\ ~matches_blocked(t)
    /\ ~starts_with(t, SUDO_PREFIX)
    /\ ~matches_dangerous(t)
    /\ ~matches_confirm(t)
    /\ ~matches_safe(t)

\* C1: execute_command reaches no spawn for a command classify_command maps
\* to Blocked; it returns success=false, exit_code=-1, duration_ms=0 and the
\* refusal message in stderr and output, whoever the caller is.
C1_BlockedNeverSpawned ==
    /\ (spawn_log # <<>> /\ Last(spawn_log)[1] = "sh")
          => classify_command(Last(spawn_log)[2]) # "Blocked"
    /\ (entry = "execute_command" /\ pc = "done" /\ classify_command(cmd) = "Blocked")
          => /\ spawn_log = <<>>
             /\ ret.tag = "Ok"
             /\ ret.val.success = FALSE
             /\ ret.val.exit_code = -1
             /\ ret.val.duration_ms = 0
             /\ ret.val.stderr = BLOCKED_MESSAGE
             /\ ret.val.output = BLOCKED_MESSAGE

C1_Witness ==
    /\ entry = "execute_command" /\ pc = "done"
    /\ classify_command(cmd) = "Blocked"
    /\ matches_safe(normalize(cmd))
    /\ ret.tag = "Ok" /\ ret.val.output = BLOCKED_MESSAGE

\* C2: a command that contains a deny-list literal, in any letter case, with
\* any surrounding whitespace and any prefix, is classified Blocked.
C2_DenyLiteralBlocked ==
    (entry = "classify_command" /\ pc = "done" /\ ContainsDenyLiteral(cmd))
        => level = "Blocked"

C2_Witness ==
    /\ entry = "classify_command" /\ pc = "done"
    /\ ContainsDenyLiteral(cmd)
    /\ cmd # to_lowercase(cmd)
    /\ starts_with(normalize(cmd), SUDO_PREFIX)
    /\ level = "Blocked"

\* C3: a command that matches none of the four tables and has no sudo prefix
\* is classified NeedsConfirmation, and agent_chat never hands such a command
\* to execute_command, whatever auto_execute_safe is.
C3_DefaultDeny ==
    /\ (entry = "classify_command" /\ pc = "done" /\ Unrecognized(cmd))
          => level = "NeedsConfirmation"
    /\ (entry = "agent_chat" /\ exec_calls # <<>>)
          => ~Unrecognized(Last(exec_calls))

C3_Witness ==
    /\ entry = "agent_chat" /\ pc = "done" /\ auto_execute_safe
    /\ exec_calls # <<>>
    /\ \E c \in Range(extract_commands(response)) : Unrecognized(c)

\* C4: agent_chat hands a command to execute_command only if it is Safe and
\* auto_execute_safe is true; with auto_execute_safe false nothing is executed
\* and the returned tool-result list is empty.
C4_OnlySafeWithOptIn ==
    entry = "agent_chat" =>
        /\ exec_calls # <<>> =>
              (classify_command(Last(exec_calls)) = "Safe" /\ auto_execute_safe)
        /\ ~auto_execute_safe =>
              /\ exec_calls = <<>> /\ spawn_log = <<>> /\ tool_results = <<>>
              /\ ret.tag = "Ok" => ret.val.tool_results = <<>>

C4_Witness ==
    /\ entry = "agent_chat" /\ pc = "done" /\ ~auto_execute_safe
    /\ ret.tag = "Ok"
    /\ \E c \in Range(extract_commands(ret.val.text)) : classify_command(c) = "Safe"

\* the most commands one response of the model holds
MostCommands ==
    CHOOSE n \in 0..100 :
        /\ \A r \in Responses : Len(extract_commands(r)) <= n
        /\ \E r \in Responses : Len(extract_commands(r)) = n

\* what remains of a run: iterations not started, then commands not processed
Remaining ==
    IF pc = "done" THEN -1
    ELSE (MAX_ITERATIONS - iter) * (MostCommands + 2)
         + (IF pc = "process" THEN Len(commands) ELSE 0)

\* a call that has not returned can take a step: the guards of the actions
CanStep ==
    \/ pc = "done"
    \/ entry \in {"classify_command", "execute_command", "execute_with_sudo",
                  "extract_commands", "generate"}
          /\ pc = "call"
    \/ entry = "agent_chat" /\ pc = "call" /\ iter <= MAX_ITERATIONS
    \/ entry = "agent_chat" /\ pc = "process"
    \/ entry = "run_ai_generation" /\ pc = "call" /\ iter <= AI_MAX_ITERATIONS
    \/ entry = "app"

\* C5: a run of agent_chat makes at most 10 provider calls and ends: every
\* step uses up part of a bounded remainder, and a run that has not returned
\* can take a step.
C5_AtMostTenCalls ==
    /\ [](provider_calls <= 10 /\ iter <= 10 /\ CanStep)
    /\ [][entry # "app" => Remaining' < Remaining]_vars

C5_Witness ==
    entry = "agent_chat" /\ pc = "done" /\ provider_calls = 10

OneSafeCommand(r) ==
    LET cs == extract_commands(r) IN
    Len(cs) = 1 /\ classify_command(cs[1]) = "Safe"

\* C6: with auto_execute_safe true and a provider that answers every call with
\* the same response holding one Safe command, agent_chat makes exactly 10
\* provider calls, executes the command 10 times and returns the fixed
\* maximum-iterations message with the accumulated tool results.
C6_CapWithSafeCommand ==
    (/\ entry = "agent_chat" /\ pc = "done" /\ auto_execute_safe
     /\ ~provider_failed /\ switches = 0 /\ OneSafeCommand(response))
        => /\ provider_calls = 10
           /\ Len(exec_calls) = 10
           /\ Len(tool_results) = 10
           /\ ret = Ok([text |-> MAX_ITERATIONS_MESSAGE, tool_results |-> tool_results])

\* C7: a response without an extractable command ends the run at once:
\* agent_chat returns that text with the tool results accumulated so far, and
\* no provider call follows; on the first call the tool-result list is empty.
C7_NoCommandsReturns ==
    (entry = "agent_chat" /\ response # NoResponse /\ CommandsOf[response] = <<>>)
        => /\ pc = "done"
           /\ ret = Ok([text |-> response, tool_results |-> tool_results])
           /\ provider_calls = iter
           /\ iter = 1 => (tool_results = <<>> /\ provider_calls = 1)

C7_Witness ==
    /\ entry = "agent_chat" /\ pc = "done"
    /\ response # NoResponse /\ CommandsOf[response] = <<>>
    /\ iter > 1 /\ tool_results # <<>>

\* C8: every CommandResult execute_command returns has success exactly when
\* exit_code is 0; a timeout, a spawn failure, a blocked command and a process
\* without an exit code give success=false and exit_code=-1.
C8_SuccessIffExitZero ==
    /\ (entry = "execute_command" /\ pc = "done" /\ ret.tag = "Ok") =>
          /\ ret.val.success <=> ret.val.exit_code = 0
          /\ last_os.kind \in {"timeout", "spawn_err", "signaled", "none"} =>
                (~ret.val.success /\ ret.val.exit_code = -1)
    /\ tool_results # <<>> =>
          (Last(tool_results).result.success
              <=> Last(tool_results).result.exit_code = 0)

C8_Witness ==
    /\ entry = "execute_command" /\ pc = "done"
    /\ last_os.kind = "signaled"
    /\ ret.tag = "Ok" /\ ret.val.exit_code = -1 /\ ~ret.val.success

\* the operating system failed the call: no spawn, no write of the secret,
\* no wait, a timeout, or the elevation tool refusing the secret
OsFailure ==
    \/ last_os.kind \in {"spawn_err", "write_err", "wait_err", "timeout"}
    \/ last_os.kind = "exited" /\ is_wrong_password(last_os.err)

\* C9: both executors return every operating-system failure as an Ok
\* CommandResult with success=false, never as an Err.
C9_FailuresAreData ==
    (entry \in {"execute_command", "execute_with_sudo"} /\ pc = "done" /\ OsFailure)
        => (ret.tag = "Ok" /\ ~ret.val.success)

\* C10: agent_chat returns an error exactly when a provider call failed; the
\* error then is all that is returned, and no outcome of a command makes the
\* run return an error.
C10_ErrorIffProviderFailed ==
    (entry = "agent_chat" /\ pc = "done") =>
        /\ ret.tag = "Err" <=> provider_failed
        /\ provider_failed => ret = Err(PROVIDER_ERROR)

C10_Witness ==
    /\ entry = "agent_chat" /\ pc = "done"
    /\ provider_failed /\ ret.tag = "Err"
    /\ tool_results # <<>>

\* C11: classify_command returns the first tier, in the order Blocked,
\* NeedsSudo, Dangerous, NeedsConfirmation, Safe, whose pattern matches the
\* lower-cased trimmed command: "sudo " without a deny literal is NeedsSudo
\* whatever follows, and a dangerous pattern wins over a needs-confirmation or
\* safe prefix.
C11_FirstTierInPriorityOrder ==
    (entry = "classify_command" /\ pc = "done") =>
        LET t == trim(to_lowercase(cmd))
            b == matches_blocked(t)
            s == starts_with(t, "sudo ")
            d == matches_dangerous(t)
            c == matches_confirm(t)
            f == matches_safe(t) IN
        /\ b => level = "Blocked"
        /\ (~b /\ s) => level = "NeedsSudo"
        /\ (~b /\ ~s /\ d) => level = "Dangerous"
        /\ (~b /\ ~s /\ ~d /\ c) => level = "NeedsConfirmation"
        /\ (~b /\ ~s /\ ~d /\ ~c /\ f) => level = "Safe"

C11_Witness ==
    /\ entry = "classify_command" /\ pc = "done"
    /\ matches_safe(normalize(cmd))
    /\ contains(normalize(cmd), " rm")
    /\ level = "Dangerous"

\* the string fields of a value returned by an executor
StringFields(r) ==
    IF r.tag = "Ok"
    THEN {r.val.command, r.val.stdout, r.val.stderr, r.val.output, r.val.summary}
    ELSE {r.val}

\* C12: the secret handed to execute_with_sudo influences no field of the
\* returned value: a call with any other secret and the same subprocess
\* outcome returns the same CommandResult or error, and no field holds the
\* secret.
C12_SecretDoesNotInfluence ==
    (entry = "execute_with_sudo" /\ pc = "done") =>
        /\ \E timeout_secs \in TimeoutInputs :
              \A pw \in PasswordInputs \cup {"correct horse"} :
                  ret = execute_with_sudo(cmd, pw, timeout_secs, last_os)
        /\ password # "" =>
              \A f \in StringFields(ret) : ~contains(f, password)

C12_Witness ==
    /\ entry = "execute_with_sudo" /\ pc = "done"
    /\ password = "hunter2"
    /\ last_os.kind = "write_err"
    /\ ret.tag = "Err"

\* C13: execute_with_sudo spawns no process for a command that
\* classify_command maps to Blocked, whether or not the caller classified it.
C13_SudoBlockedNeverSpawned ==
    (entry = "execute_with_sudo" /\ pc = "done" /\ classify_command(cmd) = "Blocked")
        => (spawn_log = <<>> \/ last_os.kind = "spawn_err")

\* C19: for a command classify_command maps to NeedsSudo, the command
\* execute_with_sudo hands to the elevation tool has lost its leading sudo
\* token: the elevated shell is not given a command that begins with sudo.
C19_SudoTokenStripped ==
    (entry = "execute_with_sudo" /\ pc = "done" /\ classify_command(cmd) = "NeedsSudo")
        => /\ spawn_log # <<>>
           /\ Last(spawn_log)[1] = "sudo"
           /\ ~starts_with(trim(Last(spawn_log)[2]), "sudo ")

\* C20: when the stderr execute_with_sudo captured holds a wrong-secret
\* phrase, the result has success=false and the summary "Incorrect password",
\* whatever the exit code; a result with success=true has exit code 0 and no
\* wrong-secret phrase in stderr.
C20_WrongSecretReported ==
    (entry = "execute_with_sudo" /\ pc = "done" /\ last_os.kind = "exited") =>
        /\ is_wrong_password(from_utf8_lossy(last_os.err)) =>
              /\ ret.tag = "Ok"
              /\ ~ret.val.success
              /\ ret.val.summary = "Incorrect password"
        /\ (ret.tag = "Ok" /\ ret.val.success) =>
              /\ ret.val.exit_code = 0
              /\ ~is_wrong_password(ret.val.stderr)

\* stdout followed by stderr, one newline between them when both are
\* non-empty and nothing otherwise
StdoutThenStderr(r) ==
    IF r.stdout # "" /\ r.stderr # "" THEN r.stdout \o "\n" \o r.stderr
    ELSE r.stdout \o r.stderr

\* execute_command returned the result of a completed process
CompletedCommand ==
    /\ entry = "execute_command" /\ pc = "done"
    /\ last_os.kind \in {"exited", "signaled"}
    /\ ret.tag = "Ok"

C18_TruncationAtBudget ==
    (entry = "execute_command" /\ pc = "done" /\ last_os.kind = "exited") =>
        LET stdout == from_utf8_lossy(last_os.out)
            stderr == from_utf8_lossy(last_os.err)
            whole == StdoutThenStderr([stdout |-> stdout, stderr |-> stderr])
            marker == "...\n[Output truncated, " \o ToString(Len(whole))
                          \o " bytes total]" IN
        /\ ret.tag = "Ok"
        /\ ret.val.stdout = stdout
        /\ ret.val.stderr = stderr
        /\ Len(whole) > 10000 =>
              /\ ret.val.output = SubSeq(whole, 1, 10000) \o marker
              /\ Len(ret.val.output) <= 10000 + Len(marker)
        /\ Len(whole) <= 10000 => ret.val.output = whole

\* response r holds a command that agent_chat neither executes nor blocks
HasPendingCommand(r) ==
    \E i \in 1..Len(CommandsOf[r]) :
        LET danger == classify_command(CommandsOf[r][i]) IN
        danger # "Blocked" /\ ~(danger = "Safe" /\ auto_execute_safe)

\* the provider responses of the run so far: those kept as assistant turns,
\* and the current one
ResponsesSeen ==
    {all_messages[i].content :
        i \in {j \in 1..Len(all_messages) : all_messages[j].role = "assistant"}}
    \cup (IF response = NoResponse THEN {} ELSE {response})

\* C15: a command left pending is not dropped: when agent_chat returns, every
\* response of the run that held a pending command is the response returned,
\* also when that response held executed or blocked commands as well.
C15_PendingSurfaced ==
    (entry = "agent_chat" /\ pc = "done" /\ ret.tag = "Ok") =>
        \A r \in ResponsesSeen : HasPendingCommand(r) => ret.val.text = r

\* C16: when execute_command or execute_with_sudo returns, no subprocess the
\* call spawned is still running: it was waited on, or, on a timeout,
\* terminated or reaped before the result is handed to the caller.
C16_NoSubprocessLeftRunning ==
    (entry \in {"execute_command", "execute_with_sudo"} /\ pc = "done")
        => orphans = 0

\* auto-execution was enabled: agent_chat has the auto_execute_safe argument;
\* run_ai_generation takes the messages, the provider settings and the result
\* channel, and reads no setting that enables auto-execution
AutoExecuteEnabled == entry = "agent_chat" /\ auto_execute_safe

\* C14: in both loops that run LLM-issued commands without confirmation,
\* agent_chat and run_ai_generation, a command is executed only when it is
\* classified Safe and auto-execution was explicitly enabled.
C14_AutoExecuteOnlySafeOptIn ==
    (entry \in {"agent_chat", "run_ai_generation"} /\ exec_calls # <<>>)
        => /\ classify_command(Last(exec_calls)) = "Safe"
           /\ AutoExecuteEnabled

\* the password prompt the elevation tool writes to stderr
SUDO_PROMPT == "[sudo] password for user:"

\* C21: when the stderr execute_with_sudo captured begins with the password
\* prompt, the prompt is in neither the stderr, the output nor the summary of
\* the result, also when the prompt is all of stderr and no newline follows.
C21_PromptNeverReturned ==
    (/\ entry = "execute_with_sudo" /\ pc = "done" /\ last_os.kind = "exited"
     /\ starts_with(from_utf8_lossy(last_os.err), SUDO_PROMPT))
        => /\ ret.tag = "Ok"
           /\ ~contains(ret.val.stderr, SUDO_PROMPT)
           /\ ~contains(ret.val.output, SUDO_PROMPT)
           /\ ~contains(ret.val.summary, SUDO_PROMPT)

\* the candidates trimmed, the empty ones left out
NonBlank(c) == c # ""

Trimmed(cands) == [i \in 1..Len(cands) |-> trim(cands[i])]

\* a command line of a fenced block: not a comment
CommandLine(c) == c # "" /\ ~starts_with(c, "#")

\* what the three syntaxes match in a response, each in left-to-right order
TagCommands(resp) == SelectSeq(Trimmed(tag_captures(resp, 1)), NonBlank)

BlockCommands(resp) ==
    SelectSeq(Trimmed(block_lines(block_captures(resp, 1))), CommandLine)

SpanCommands(resp) == SelectSeq(Trimmed(exec_captures(resp, 1)), NonBlank)

\* C22: extract_commands returns the command-tag matches in left-to-right
\* order, then the command lines of the [RUN] fenced blocks, then the
\* [EXECUTE] spans, grouped per syntax; no entry is empty or only whitespace,
\* and a fenced block gives one entry per non-empty line that is no comment.
C22_GroupedPerSyntax ==
    (entry = "extract_commands" /\ pc = "done") =>
        /\ commands = TagCommands(response) \o BlockCommands(response)
                          \o SpanCommands(response)
        /\ \A i \in 1..Len(commands) :
              commands[i] # "" /\ trim(commands[i]) = commands[i]

\* a span precedes a tag in the text and follows it in the result; the block
\* holds a blank line and comment lines
C22_Witness ==
    /\ entry = "extract_commands" /\ pc = "done"
    /\ find_from(response, EXECUTE_MARKER, 1) # 0
    /\ find_from(response, EXECUTE_MARKER, 1) < find_from(response, OPEN_TAG, 1)
    /\ contains(response, "\n\n") /\ contains(response, "\n# ")
    /\ commands = <<"ls -la", "cat a", "rm b", "pwd">>

\* the response holds commands and every one of them is pending: none is
\* executed and none is Blocked
AllPending(r) ==
    /\ CommandsOf[r] # <<>>
    /\ \A i \in 1..Len(CommandsOf[r]) :
          LET danger == classify_command(CommandsOf[r][i]) IN
          danger # "Blocked" /\ ~should_execute(danger, auto_execute_safe)

\* C23: an iteration of agent_chat in which every extracted command is
\* pending appends nothing to the message sequence and ends the loop: the
\* current response is returned with the accumulated tool results, and no
\* provider call follows.
C23_AllPendingStops ==
    /\ []((entry = "agent_chat" /\ response # NoResponse /\ AllPending(response))
            => /\ all_messages = sent
               /\ provider_calls = iter
               /\ commands = <<>> =>
                     /\ pc = "done"
                     /\ ret = Ok([text |-> response, tool_results |-> tool_results]))
    /\ [][(entry = "agent_chat" /\ pc = "done")
             => (provider_calls' = provider_calls /\ all_messages' = all_messages)]_vars

C23_Witness ==
    /\ entry = "agent_chat" /\ pc = "done" /\ auto_execute_safe
    /\ response # NoResponse /\ AllPending(response)
    /\ iter > 1 /\ tool_results # <<>>
    /\ ret = Ok([text |-> response, tool_results |-> tool_results])

\* the Blocked commands of a response
BlockedCommandsOf(r) ==
    {CommandsOf[r][i] : i \in {j \in 1..Len(CommandsOf[r]) :
                                  classify_command(CommandsOf[r][j]) = "Blocked"}}

\* the iteration cap was reached with these tool results
EndedAtCap(results) ==
    /\ pc = "done" /\ provider_calls = MAX_ITERATIONS
    /\ ret = Ok([text |-> MAX_ITERATIONS_MESSAGE, tool_results |-> results])

\* C24: a Blocked command extracted by agent_chat is not handed to
\* execute_command and leaves no ToolResult; once the commands of its
\* iteration are processed, a user-role [Command Blocked] notice naming it is
\* in the message sequence and the loop goes on to the next provider call, so
\* a provider that only emits Blocked commands ends at the iteration cap with
\* an empty tool-result list.
C24_BlockedNoticedAndLoopGoesOn ==
    (entry = "agent_chat" /\ pc \in {"call", "done"}) =>
        /\ \A r \in ResponsesSeen : \A c \in BlockedCommandsOf(r) :
              /\ c \notin Range(exec_calls)
              /\ \A i \in 1..Len(tool_results) : tool_results[i].command # c
              /\ command_blocked_turn(c) \in Range(all_messages)
        /\ (/\ pc = "done" /\ ~provider_failed /\ response # NoResponse
            /\ BlockedCommandsOf(response) # {})
              => EndedAtCap(tool_results)
        /\ (/\ pc = "done" /\ ~provider_failed /\ switches = 0
            /\ response # NoResponse /\ CommandsOf[response] # <<>>
            /\ BlockedCommandsOf(response) = Range(CommandsOf[response]))
              => EndedAtCap(<<>>)

IsPrefix(a, b) == Len(a) <= Len(b) /\ SubSeq(b, 1, Len(a)) = a

\* the turns one step appended to the message sequence
Appended == SubSeq(all_messages', Len(all_messages) + 1, Len(all_messages'))

\* the step processes a command of the iteration
ProcessesCommand == entry = "agent_chat" /\ pc = "process" /\ commands' # commands

\* C25: the message sequence of an agent_chat run starts with the system
\* prompt followed by the caller's messages in their order and only grows:
\* every sequence sent to the provider extends the one sent before; an
\* executed and a blocked command each append exactly two turns, the
\* assistant response and one user-role result or notice turn, and a pending
\* command appends none; the ToolResult list grows by exactly one entry per
\* executed command.
C25_MessagesAppendOnly ==
    /\ [](entry = "agent_chat" =>
            /\ all_messages[1] = ChatMessage("system", AGENT_SYSTEM_PROMPT)
            /\ \E m \in MessageInputs : SubSeq(all_messages, 2, Len(m) + 1) = m
            /\ IsPrefix(sent, all_messages)
            /\ Len(tool_results) = Len(exec_calls))
    /\ [][entry = "agent_chat" =>
            /\ IsPrefix(all_messages, all_messages')
            /\ IsPrefix(sent, sent')
            /\ IsPrefix(tool_results, tool_results')
            /\ ProcessesCommand =>
                 LET c == Head(commands)
                     danger == classify_command(c) IN
                 IF exec_calls' # exec_calls
                 THEN /\ Len(Appended) = 2
                      /\ Appended[1] = ChatMessage("assistant", response)
                      /\ Appended[2] = command_output_turn(c, Last(tool_results').result)
                      /\ tool_results' = Append(tool_results, Last(tool_results'))
                      /\ Last(tool_results').command = c
                 ELSE IF danger = "Blocked"
                 THEN /\ Appended = <<ChatMessage("assistant", response),
                                      command_blocked_turn(c)>>
                      /\ tool_results' = tool_results
                 ELSE Appended = <<>> /\ tool_results' = tool_results
            /\ ~ProcessesCommand =>
                 (all_messages' = all_messages /\ tool_results' = tool_results)]_vars

\* the step hands a command to execute_command
StartsCommand == entry = "agent_chat" /\ exec_calls' # exec_calls

\* C26: the side effects of an agent_chat run are strictly sequential: the
\* commands of an iteration are executed one at a time in extraction order,
\* no command starts while a subprocess of an earlier one is still running
\* or before the result turn of the earlier one is appended, the provider is
\* called again only when every command of the iteration has been processed,
\* and the ToolResult list is in execution order.
C26_SideEffectsSequential ==
    /\ [](entry = "agent_chat" =>
            /\ pc = "process" =>
                  /\ commands # <<>>
                  /\ \E k \in 0..Len(CommandsOf[response]) :
                        commands = SubSeq(CommandsOf[response], k + 1,
                                          Len(CommandsOf[response]))
            /\ \A i \in 1..Len(tool_results) :
                  /\ i <= Len(exec_calls)
                  /\ tool_results[i].command = exec_calls[i]
                  /\ command_output_turn(exec_calls[i], tool_results[i].result)
                         \in Range(all_messages))
    /\ [][(StartsCommand =>
              /\ orphans = 0
              /\ Len(tool_results) = Len(exec_calls)
              /\ exec_calls' = Append(exec_calls, Head(commands))
              /\ commands' = Tail(commands))
          /\ ((entry = "agent_chat" /\ provider_calls' # provider_calls) =>
                 (pc = "call" /\ commands = <<>>
                  /\ Len(tool_results) = Len(exec_calls)))]_vars

\* verb is in t as a whole token: spaces, or the ends of t, on both sides
HasToken(t, verb) == contains(" " \o t \o " ", " " \o verb \o " ")

HasDangerousToken(t) ==
    \E i \in 1..Len(DANGEROUS_COMMANDS) : HasToken(t, DANGEROUS_COMMANDS[i])

\* C27: a command without deny-list literal and without the sudo prefix is
\* classified Dangerous exactly when a dangerous verb is a whole
\* space-delimited token of it, at its start or further in; a word that only
\* begins with a dangerous verb does not make it Dangerous.
C27_DangerousIffVerbToken ==
    (/\ entry = "classify_command" /\ pc = "done"
     /\ ~ContainsDenyLiteral(cmd)
     /\ ~starts_with(normalize(cmd), SUDO_PREFIX))
        => (level = "Dangerous" <=> HasDangerousToken(normalize(cmd)))

\* C28: execute_command returns a CommandResult, and neither aborts nor
\* fails, whatever the subprocess printed, also when the combined output is
\* longer than the byte budget and a multi-byte character lies across the
\* budget boundary.
C28_ResultForEveryOutput ==
    (entry = "execute_command" /\ pc = "done") =>
        /\ ret.tag = "Ok"
        /\ ret.val.command = cmd

\* the entries of chat_history with this role, the welcome message aside
Entries(role) ==
    Cardinality({i \in 2..Len(chat_history) : chat_history[i].role = role})

\* the result of generation g is on its channel and can still be polled
AwaitsPoll(g) ==
    generations[g].status = "sent" /\ ~generations[g].received /\ ai_result_rx = <<g>>

\* the result of generation g never reaches chat_history
ResultLost(g) ==
    \/ generations[g].status = "send_failed"
    \/ generations[g].status = "sent" /\ ~generations[g].received
          /\ ai_result_rx # <<g>>

\* nothing is left to do for the threads and for poll_ai_response
Quiescent ==
    \A g \in 1..Len(generations) :
        generations[g].status # "running" /\ ~AwaitsPoll(g)

\* C29: in the application every user message accepted by send_message gets
\* exactly one assistant entry in chat_history, whatever the interleaving of
\* the UI thread and the generation threads, also when a second message is
\* sent before the result of the first was polled: no result is lost, and
\* is_thinking is cleared only when no generation is outstanding.
C29_OneAnswerPerMessage ==
    entry = "app" =>
        /\ \A g \in 1..Len(generations) : ~ResultLost(g)
        /\ ~is_thinking => \A g \in 1..Len(generations) :
                               generations[g].status # "running"
        /\ Entries("assistant") <= Entries("user")
        /\ Quiescent => Entries("assistant") = Entries("user")

\* the provider answers when it is asked: its name is known and its request
\* succeeds
Answers(provider) ==
    provider \in KnownProviders /\ provider_health[provider] = "ok"

\* the positions of the preference list whose provider answers
AnsweringPositions ==
    {i \in 1..Len(provider_preference) : Answers(provider_preference[i])}

\* why a provider that does not answer fails
FailureOf(provider) ==
    IF provider \notin KnownProviders THEN "Unknown provider: " \o provider
    ELSE IF provider_health[provider] = "no_key"
    THEN API_KEY_VARIABLE[provider] \o " not set"
    ELSE provider \o " error: 500 Internal Server Error"

\* C30: generate tries the providers in preference order and returns the
\* response of the first that succeeds; a provider that fails, because its
\* name is unknown, its request fails or its client cannot be constructed,
\* never keeps the later ones from being tried; an error is returned only
\* when every provider failed (the last error) or the list is empty.
C30_FirstAnsweringProvider ==
    (entry = "generate" /\ pc = "done") =>
        IF AnsweringPositions # {}
        THEN LET first == CHOOSE i \in AnsweringPositions :
                              \A j \in AnsweringPositions : i <= j IN
             /\ ret = Ok("response of " \o provider_preference[first])
             /\ Last(providers_called) = provider_preference[first]
        ELSE IF provider_preference = <<>>
        THEN ret = Err("No providers configured")
        ELSE ret = Err(FailureOf(Last(provider_preference)))

====
